---- MODULE Spec2Model ----
(***************************************************************************)
(* LLDB data formatters of wbr::static_string, wbr::static_vector and      *)
(* wbr::static_vector_adapter (tools/pretty_static_string.py and           *)
(* tools/pretty_static_vector.py).                                         *)
(*                                                                         *)
(* The debugger host is the environment: an inspected value is a record    *)
(* tree, a host call may raise, and process memory is a byte stream.       *)
(* Three specifications share the module:                                  *)
(*   SpecStr   static_string_summary                                       *)
(*   SpecVec   the two synthetic-children providers and the two summaries  *)
(*   SpecCo    _read_unsigned_value                                        *)
(***************************************************************************)
EXTENDS Integers, Sequences, FiniteSets, TLC

VARIABLES
    sObj,     \* static_string: the inspected value (valobj)
    sMem,     \* static_string: process memory
    sFault,   \* static_string: the host operation that raises, or "none"
    sOut,     \* static_string: what the last static_string_summary returned
    sReads,   \* static_string: the ReadMemory requests of the last call
    cIn,      \* _read_unsigned_value: its arguments, [sbval, default]
    cOut,     \* _read_unsigned_value: what the last call returned
    vKind,    \* vectors: which type is inspected, "vector" or "adapter"
    vObj,     \* vectors: the inspected value (valobj) as the host shows it now
    prov,     \* vectors: the synthetic-children provider instance, if constructed
    ret,      \* vectors: the last decoder call and how it ended
    fresh     \* vectors: no query has run since the last update or construction

svars == <<sObj, sMem, sFault, sOut, sReads>>
cvars == <<cIn, cOut>>
vvars == <<vKind, vObj, prov, ret, fresh>>
vars == <<svars, cvars, vvars>>

(***************************************************************************)
(* Unsigned host values.  GetValueAsUnsigned yields a 64-bit unsigned and  *)
(* Python integers do not overflow, but the model checker's integers stop  *)
(* below 2^31, the very bound static_string_summary clamps to.  A value is *)
(* therefore a pair <<hi, lo>> standing for hi * 2^31 + lo.                *)
(***************************************************************************)
LimbMax == 1073741823 * 2 + 1

U(hi, lo) == <<hi, lo>>
UInt(n) == <<0, n>>
UZero == <<0, 0>>
ULt(a, b) == a[1] < b[1] \/ (a[1] = b[1] /\ a[2] < b[2])
ULe(a, b) == a = b \/ ULt(a, b)
UMin(a, b) == IF ULt(b, a) THEN b ELSE a
UMax(a, b) == IF ULt(a, b) THEN b ELSE a
\* a - b for b <= a
USub(a, b) ==
    IF a[2] >= b[2] THEN <<a[1] - b[1], a[2] - b[2]>>
    ELSE <<a[1] - b[1] - 1, ((a[2] - b[2]) + LimbMax) + 1>>

MinOf(S) == CHOOSE x \in S : \A y \in S : x <= y

(***************************************************************************)
(* SBValue as the formatters see it.  kind "none" is Python's None, kind   *)
(* "raised" marks a host call that raised on the way.                      *)
(***************************************************************************)
None == [kind |-> "none", valid |-> FALSE, value |-> UZero]
Raised == [kind |-> "raised", valid |-> FALSE, value |-> UZero]
Field(v) == [kind |-> "value", valid |-> TRUE, value |-> v]
InvalidField == [kind |-> "value", valid |-> FALSE, value |-> UZero]

\* SBValue.GetChildMemberWithName: an invalid SBValue when there is no such member
GetChildMemberWithName(v, name) ==
    IF name \in DOMAIN v.members THEN v.members[name] ELSE InvalidField

Truthy(m) == m.kind = "value" /\ m.valid

\* pretty_static_string._find_member_recursive: own members, then the base
\* classes in child order, depth first; None when nothing matches.
RECURSIVE FindMemberRecursive(_, _, _)
FindMemberRecursive(v, name, flt) ==
    LET m == GetChildMemberWithName(v, name)
        n == Len(v.children)
        isBaseChild(i) == v.children[i].valid /\ v.children[i].isBase
        sub == [i \in 1..n |->
                  IF ~v.children[i].valid THEN None
                  ELSE IF flt = "IsBaseClass" THEN Raised
                  ELSE IF v.children[i].isBase
                       THEN FindMemberRecursive(v.children[i].obj, name, flt)
                       ELSE None]
        stop == {i \in 1..n : sub[i].kind = "raised" \/ Truthy(sub[i])}
    IN  IF flt = "GetChildMemberWithName" THEN Raised
        ELSE IF Truthy(m) THEN m
        ELSE IF flt = "GetNumChildren" THEN Raised
        ELSE IF stop = {} THEN None
        ELSE sub[MinOf(stop)]

(***************************************************************************)
(* Process memory: the byte stream found at address `at` is `prefix`       *)
(* followed by `fill` for ever, with a NUL at offset nulAt when that is not *)
(* -1; status says how SBProcess.ReadMemory ends: *)
(* "ok", "fail" (error.Fail()) or "none" (no data and no error).  Nothing  *)
(* is mapped at any other address.                                         *)
(***************************************************************************)
ByteAt(mem, i) ==
    IF i = mem.nulAt + 1 THEN 0
    ELSE IF i <= Len(mem.prefix) THEN mem.prefix[i] ELSE mem.fill

ReadMemory(mem, addr, n) ==
    IF mem.status = "ok" /\ addr # mem.at THEN [status |-> "fail", bytes |-> <<>>]
    ELSE [status |-> mem.status,
          bytes |-> IF mem.status = "ok" THEN [i \in 1..n |-> ByteAt(mem, i)] ELSE <<>>]

\* bytes.find(b"\x00"): index of the first NUL, counted from 0, or -1
FindNul(b) ==
    LET z == {i \in 1..Len(b) : b[i] = 0}
    IN  IF z = {} THEN -1 ELSE MinOf(z) - 1

(***************************************************************************)
(* bytes.decode('utf-8', errors='replace') on bytes below 0xE0 or above    *)
(* 0xF4 (one- and two-byte sequences; the model's memory holds no lead     *)
(* byte of a longer sequence).  A continuation byte right after a two-byte *)
(* lead is consumed by it; every other byte that is not ASCII decodes to   *)
(* U+FFFD.  Skip marks a consumed position.                                *)
(***************************************************************************)
ReplacementChar == 65533
Skip == 0 - 1
IsCont(x) == x >= 128 /\ x <= 191
IsLead2(x) == x >= 194 /\ x <= 223

DecodeAt(b, i) ==
    IF b[i] < 128 THEN b[i]
    ELSE IF IsCont(b[i]) THEN
        IF i > 1 /\ IsLead2(b[i-1]) THEN Skip ELSE ReplacementChar
    ELSE IF IsLead2(b[i]) THEN
        IF i < Len(b) /\ IsCont(b[i+1])
        THEN (b[i] % 32) * 64 + (b[i+1] % 64)
        ELSE ReplacementChar
    ELSE ReplacementChar

NotSkip(x) == x # Skip

DecodeUtf8(b) == SelectSeq([i \in 1..Len(b) |-> DecodeAt(b, i)], NotSkip)

\* str.replace(ch, "\\" + esc): every ch becomes the two characters \ esc
Backslash == 92
Replace(s, ch, esc) ==
    SelectSeq([j \in 1..(2 * Len(s)) |->
                 LET c == s[(j + 1) \div 2]
                 IN  IF j % 2 = 1 THEN (IF c = ch THEN Backslash ELSE c)
                     ELSE (IF c = ch THEN esc ELSE Skip)],
              NotSkip)

\* line 71: backslash, newline, carriage return, tab, in this order
Escape(s) ==
    Replace(Replace(Replace(Replace(s, Backslash, Backslash), 10, 110), 13, 114), 9, 116)

MaxDisplay == 200
Ellipsis == 8230

\* lines 72-73
Truncate(s) ==
    IF Len(s) > MaxDisplay THEN SubSeq(s, 1, MaxDisplay) \o <<Ellipsis>> ELSE s

\* the bug of forgetting lines 61-63: the preview keeps the NUL and what follows
CutAtNulKept(b) == b

\* lines 61-63
CutAtNul(b) ==
    LET nul == FindNul(b)
    IN  IF nul # -1 THEN SubSeq(b, 1, nul) ELSE b

\* lines 56-73: from the bytes read to the text shown between the quotes
Display(b) == Truncate(Escape(DecodeUtf8(CutAtNul(b))))

(***************************************************************************)
(* static_string_summary.  The result is the returned string by its parts: *)
(*   "layout_not_found"  <static_string: layout not found>                 *)
(*   "empty"             "" len=0 cap=C                                    *)
(*   "unreadable"        <static_string: unreadable memory> len=L cap=C    *)
(*   "text"              "T" len=L cap=C                                   *)
(*   "error"             <static_string: error e>                          *)
(* together with the ReadMemory requests it issued, each <<addr, count>>.  *)
(***************************************************************************)
SanityBound == U(1, 0)
MaxPreview == 1024

SOut(kind, text, len, cap, hasLen) ==
    [kind |-> kind, text |-> text, len |-> len, cap |-> cap, hasLen |-> hasLen]

SErr == SOut("error", <<>>, UZero, UZero, FALSE)

\* the bug of clamping to a capacity of 0 as well (line 43 without its test)
ClampLengthAlways(head_addr, tail_addr, cap) ==
    UMin(UMin(USub(tail_addr, head_addr), cap), SanityBound)

\* lines 42-46
ClampLength(head_addr, tail_addr, cap) ==
    LET l0 == USub(tail_addr, head_addr)
        l1 == IF cap # UZero THEN UMin(l0, cap) ELSE l0
    IN  UMax(UZero, UMin(l1, SanityBound))

\* the bug of reading `length` bytes (line 49 without its min)
PreviewLenUncapped(length) == IF length[1] > 0 THEN LimbMax ELSE length[2]

\* line 49; the clamped length fits one limb whenever it is below 2^31
PreviewLen(length) == IF length[1] > 0 THEN MaxPreview ELSE MinOf({length[2], MaxPreview})

StaticStringSummary(obj, mem, flt) ==
    LET head == FindMemberRecursive(obj, "head_", flt)
        tail == FindMemberRecursive(obj, "tail_", flt)
        maxl == FindMemberRecursive(obj, "max_length_", flt)
        head_addr == head.value
        tail_addr == tail.value
        cap == maxl.value
        length == ClampLength(head_addr, tail_addr, cap)
        preview_len == PreviewLen(length)
        rd == ReadMemory(mem, head_addr, preview_len)
        req == <<<<head_addr, preview_len>>>>
    IN  IF flt \in {"GetTarget", "GetProcess"} THEN [out |-> SErr, reads |-> <<>>]
        ELSE IF head.kind = "raised" THEN [out |-> SErr, reads |-> <<>>]
        ELSE IF tail.kind = "raised" THEN [out |-> SErr, reads |-> <<>>]
        ELSE IF maxl.kind = "raised" THEN [out |-> SErr, reads |-> <<>>]
        ELSE IF ~(Truthy(head) /\ Truthy(tail) /\ Truthy(maxl))
            THEN [out |-> SOut("layout_not_found", <<>>, UZero, UZero, FALSE), reads |-> <<>>]
        ELSE IF flt = "GetValueAsUnsigned" THEN [out |-> SErr, reads |-> <<>>]
        ELSE IF head_addr = UZero \/ tail_addr = UZero \/ ULt(tail_addr, head_addr)
            THEN [out |-> SOut("empty", <<>>, UZero, cap, TRUE), reads |-> <<>>]
        ELSE IF flt = "ReadMemory" THEN [out |-> SErr, reads |-> req]
        ELSE IF rd.status # "ok"
            THEN [out |-> SOut("unreadable", <<>>, length, cap, TRUE), reads |-> req]
        ELSE [out |-> SOut("text", Display(rd.bytes), length, cap, TRUE), reads |-> req]

(***************************************************************************)
(* Inputs of static_string_summary: inspected values of several shapes     *)
(* (members held directly, in a base class, two bases deep, behind a       *)
(* non-base member, ...), head/tail/capacity values around every clamp,    *)
(* and memory contents.                                                    *)
(***************************************************************************)
MaxPrefix == 2

Bytes == {0, 10, 65, 92, 169, 195, 255}

Triple(h, t, c) == [head_ |-> Field(h), tail_ |-> Field(t), max_length_ |-> Field(c)]
Pad == [pad_ |-> InvalidField]
Leaf(members) == [members |-> members, children |-> <<>>]
Child(valid, isBase, obj) == [valid |-> valid, isBase |-> isBase, obj |-> obj]
Node(members, children) == [members |-> members, children |-> children]

Mapped == UInt(4096)
Bogus == Triple(UInt(7), UInt(9), UInt(1))

Direct(h, t, c) == Leaf(Triple(h, t, c))

Shapes(h, t, c) ==
    { Direct(h, t, c),
      Node(Pad, <<Child(TRUE, TRUE, Direct(h, t, c))>>),
      Node(Pad, <<Child(TRUE, TRUE, Node(Pad, <<Child(TRUE, TRUE, Direct(h, t, c))>>))>>),
      Node([head_ |-> Field(h)],
           <<Child(TRUE, FALSE, Leaf(Bogus)),
             Child(TRUE, TRUE, Leaf([tail_ |-> Field(t), max_length_ |-> Field(c)]))>>),
      Node([head_ |-> InvalidField],
           <<Child(TRUE, TRUE, Direct(h, t, c)), Child(TRUE, TRUE, Leaf(Bogus))>>),
      Node(Pad, <<Child(TRUE, FALSE, Direct(h, t, c))>>),
      Node(Pad, <<Child(FALSE, TRUE, Direct(h, t, c))>>),
      Leaf([head_ |-> Field(h), tail_ |-> Field(t)]),
      Leaf([head_ |-> Field(h), tail_ |-> InvalidField, max_length_ |-> Field(c)]) }

Heads == {UZero, Mapped, UInt(8192), U(1, 7)}
Deltas == {0, 1, 2, 3, 4, 5, 16, 99, 100, 101, 199, 200, 201, 1023, 1024, 1025, 5000}
Tails == {UZero, UInt(100), U(1, 4095), U(1, 4096), U(1, 4097), U(3, 0)}
             \cup {UInt(4096 + d) : d \in Deltas}
Caps == {UZero, UInt(1), UInt(4), UInt(16), UInt(250), UInt(1024), UInt(1025),
         U(1, 0), U(1, 1), U(2, 5)}

Mem(prefix, fill, nulAt, status) ==
    [at |-> Mapped, prefix |-> prefix, fill |-> fill, nulAt |-> nulAt, status |-> status]

Prefixes == UNION {[1..n -> Bytes] : n \in 0..MaxPrefix}
PlainMem == Mem(<<104, 101, 108, 108, 111>>, 65, 0 - 1, "ok")

StrFaults == {"none", "GetTarget", "GetProcess", "GetChildMemberWithName",
              "GetNumChildren", "IsBaseClass", "GetValueAsUnsigned", "ReadMemory"}

SIn(obj, mem, flt) == [obj |-> obj, mem |-> mem, flt |-> flt]

\* every shape, every fault
LayoutInputs ==
    {SIn(o, PlainMem, f) : o \in Shapes(Mapped, UInt(4101), UInt(16)), f \in StrFaults}
    \cup {SIn(o, PlainMem, "none") : o \in Shapes(UZero, UInt(4101), UInt(16))}

\* every head/tail/capacity, long runs of one byte
BoundInputs ==
    {SIn(Direct(h, t, c), Mem(<<>>, 65, 0 - 1, st), "none") :
        h \in Heads, t \in Tails, c \in Caps, st \in {"ok", "fail", "none"}}
    \cup {SIn(Direct(Mapped, t, c), Mem(<<65>>, fl, na, "ok"), "none") :
        t \in Tails, c \in {UZero, UInt(250)}, fl \in {65, 92, 195},
        na \in {0 - 1, 150, 250, 1100}}

\* every short memory content
ContentInputs ==
    {SIn(Direct(Mapped, UInt(4096 + d), c), Mem(p, fl, 0 - 1, "ok"), "none") :
        d \in 1..(MaxPrefix + 1), c \in {UZero, UInt(2)}, p \in Prefixes, fl \in {0, 65}}

StrInputs == LayoutInputs \cup BoundInputs \cup ContentInputs

SIdle == SOut("idle", <<>>, UZero, UZero, FALSE)

\* the host asks for the summary of a wbr::static_string
Summarize ==
    /\ sOut = SIdle
    /\ LET r == StaticStringSummary(sObj, sMem, sFault)
       IN  sOut' = r.out /\ sReads' = r.reads
    /\ UNCHANGED <<sObj, sMem, sFault>>
    /\ UNCHANGED <<cvars, vvars>>

(***************************************************************************)
(* Properties of static_string_summary                                     *)
(***************************************************************************)
SCalled == sOut # SIdle
SHead == FindMemberRecursive(sObj, "head_", "none")
STail == FindMemberRecursive(sObj, "tail_", "none")
SCap == FindMemberRecursive(sObj, "max_length_", "none")
SAllFound == Truthy(SHead) /\ Truthy(STail) /\ Truthy(SCap)
SEmptyCase == SHead.value = UZero \/ STail.value = UZero \/ ULt(STail.value, SHead.value)

ULeast(S) == CHOOSE x \in S : \A y \in S : ULe(x, y)

\* min(tail - head, capacity if capacity > 0 else unbounded, 2^31)
SExpectedLen ==
    IF SEmptyCase THEN UZero
    ELSE ULeast({USub(STail.value, SHead.value), U(1, 0)}
                \cup (IF SCap.value # UZero THEN {SCap.value} ELSE {}))

\* C1: when head, tail and capacity are all found, the summary reports len=0
\* if head == 0, tail == 0 or tail < head, and otherwise
\* len = min(tail - head, capacity if capacity > 0, 2^31); with no host
\* failure a len is always reported.
C1_ReportedLen ==
    (SCalled /\ SAllFound) =>
        /\ sOut.hasLen => sOut.len = SExpectedLen
        /\ sFault = "none" => sOut.hasLen
        /\ sOut.kind = "empty" <=> (sOut.hasLen /\ SEmptyCase)

\* C1 witness: tail - head = 16 clamped to a capacity of 4
C1_Witness ==
    /\ SCalled /\ SAllFound /\ sOut.kind = "text"
    /\ USub(STail.value, SHead.value) = UInt(16)
    /\ SCap.value = UInt(4) /\ sOut.len = UInt(4)

\* C2: every memory read is issued at head for min(reported length, 1024)
\* bytes: never more than 1024, never more than a nonzero capacity, and no
\* read at all when head == 0, tail == 0 or tail < head.
C2_BoundedReads ==
    SCalled =>
        /\ Len(sReads) <= 1
        /\ \A i \in 1..Len(sReads) :
              /\ SAllFound
              /\ sReads[i][1] = SHead.value
              /\ sReads[i][2] <= 1024
              /\ SCap.value # UZero => ULe(UInt(sReads[i][2]), SCap.value)
              /\ sReads[i][2] = (IF ULt(SExpectedLen, UInt(1024)) THEN SExpectedLen[2] ELSE 1024)
              /\ sOut.hasLen => ULe(UInt(sReads[i][2]), sOut.len)
        /\ (SAllFound /\ SEmptyCase) => sReads = <<>>
        /\ sOut.kind \in {"text", "unreadable"} => Len(sReads) = 1

\* C2 witness: head = 0x1000, tail = head + 16, capacity 4 reads exactly 4 bytes
C2_Witness ==
    /\ SCalled /\ sOut.kind = "text"
    /\ USub(STail.value, SHead.value) = UInt(16)
    /\ sReads = <<<<SHead.value, 4>>>>

\* the bytes the call read from memory
SBytesRead == [i \in 1..sReads[1][2] |-> ByteAt(sMem, i)]
SNulAt(k) == k \in 1..Len(SBytesRead) /\ SBytesRead[k] = 0
                 /\ \A j \in 1..(k - 1) : SBytesRead[j] # 0
SHasNul == sOut.kind = "text" /\ \E k \in 1..Len(SBytesRead) : SBytesRead[k] = 0
SBeforeNul == SubSeq(SBytesRead, 1, (CHOOSE k \in 1..Len(SBytesRead) : SNulAt(k)) - 1)

\* C8 as stated: when the bytes read hold a NUL, first at offset k, the text
\* between the quotes is the decoding of bytes 0..k-1, and len= stays the
\* clamped tail - head.
C8_Original ==
    (SCalled /\ SHasNul) =>
        /\ sOut.text = DecodeUtf8(SBeforeNul)
        /\ sOut.len = SExpectedLen

\* C8 amended: when the bytes read hold a NUL, first at offset k, the text
\* between the quotes is the display form (backslash, newline, carriage
\* return and tab escaped, then cut to 200 characters plus an ellipsis) of
\* the decoding of bytes 0..k-1, with nothing from offset k onwards, and
\* len= stays the clamped tail - head.
C8_TextStopsAtNul ==
    (SCalled /\ SHasNul) =>
        /\ sOut.text = Truncate(Escape(DecodeUtf8(SBeforeNul)))
        /\ \A i \in 1..Len(sOut.text) : sOut.text[i] # 0
        /\ sOut.len = SExpectedLen

\* C8 witness: a NUL at offset 1 of a string whose reported length is 3
C8_Witness ==
    /\ SCalled /\ SHasNul /\ SNulAt(2)
    /\ SBytesRead[1] = 65 /\ Len(SBytesRead) = 3 /\ SBytesRead[3] # 0
    /\ sOut.text = <<65>> /\ sOut.len = UInt(3)

(***************************************************************************)
(* pretty_static_vector._read_unsigned_value                               *)
(*                                                                         *)
(* An SBValue handed to it is a record saying how the host answers each    *)
(* call on it:                                                             *)
(*   kind      "none" for Python's None                                    *)
(*   valid     IsValid(), or "raise"                                       *)
(*   deref     first Dereference(): "raise", "invalid" or "valid"          *)
(*   deref2    the same for the second Dereference() of line 48            *)
(*   dval      GetValueAsUnsigned of the dereferenced value, <<v>> or <<>> *)
(*             when it raises                                              *)
(*   text      GetValue(): <<"raise">>, <<"none">> or <<"str", chars>>     *)
(*   uval      GetValueAsUnsigned of the value itself, <<v>> or <<>>       *)
(* Text is a sequence of one-character strings.                            *)
(***************************************************************************)
SBVal(valid, deref, deref2, dval, text, uval) ==
    [kind |-> "value", valid |-> valid, deref |-> deref, deref2 |-> deref2,
     dval |-> dval, text |-> text, uval |-> uval]
NoneVal == [kind |-> "none", valid |-> "no", deref |-> "invalid", deref2 |-> "invalid",
            dval |-> <<>>, text |-> <<"none">>, uval |-> <<>>]

Whitespace == {" ", "\t", "\n"}

\* str.strip()
Strip(s) ==
    LET keep == {i \in 1..Len(s) : s[i] \notin Whitespace}
    IN  IF keep = {} THEN <<>>
        ELSE SubSeq(s, MinOf(keep), CHOOSE i \in keep : \A j \in keep : j <= i)

HexDigits == <<"0", "1", "2", "3", "4", "5", "6", "7", "8", "9",
               "a", "b", "c", "d", "e", "f">>
UpperHex == <<"A", "B", "C", "D", "E", "F">>

\* the value of one digit character, or -1 when it is no digit at all
DigitVal(c) ==
    IF \E i \in 1..16 : HexDigits[i] = c THEN (CHOOSE i \in 1..16 : HexDigits[i] = c) - 1
    ELSE IF \E i \in 1..6 : UpperHex[i] = c THEN (CHOOSE i \in 1..6 : UpperHex[i] = c) + 9
    ELSE 0 - 1

IsDigit(c, base) == DigitVal(c) >= 0 /\ DigitVal(c) < base

RECURSIVE DigitsValue(_, _)
DigitsValue(digs, base) ==
    IF digs = <<>> THEN 0
    ELSE DigitsValue(SubSeq(digs, 1, Len(digs) - 1), base) * base + DigitVal(digs[Len(digs)])

\* Python's int(s) and int(s, 16) on stripped text without underscores: an
\* optional sign, for base 16 an optional 0x or 0X, then at least one digit.
\* ok = FALSE is ValueError.
ParseInt(s, base) ==
    LET signed == Len(s) > 0 /\ s[1] \in {"-", "+"}
        body == IF signed THEN Tail(s) ELSE s
        pre == base = 16 /\ Len(body) >= 2 /\ body[1] = "0" /\ body[2] \in {"x", "X"}
        digs == IF pre THEN SubSeq(body, 3, Len(body)) ELSE body
        ok == Len(digs) > 0 /\ \A i \in 1..Len(digs) : IsDigit(digs[i], base)
    IN  IF ok THEN [ok |-> TRUE,
                    v |-> (IF s[1] = "-" THEN 0 - 1 ELSE 1) * DigitsValue(digs, base)]
        ELSE [ok |-> FALSE, v |-> 0]

\* str.startswith
StartsWith(s, p) == Len(s) >= Len(p) /\ SubSeq(s, 1, Len(p)) = p

\* lines 59-63: step 3, the unsigned accessor of the value itself
ReadStep3(sbval, default) == IF sbval.uval = <<>> THEN default ELSE sbval.uval[1]

\* lines 39-57: step 2, the value's text; falls through to step 3
ReadStep2(sbval, default) ==
    LET s == Strip(sbval.text[2])
        hex == ParseInt(s, 16)
        dec == ParseInt(s, 10)
    IN  IF sbval.text[1] # "str" THEN ReadStep3(sbval, default)
        ELSE IF Len(s) = 0 THEN ReadStep3(sbval, default)
        ELSE IF StartsWith(s, <<"0", "x">>) \/ StartsWith(s, <<"-", "0", "x">>) THEN
            IF sbval.deref2 = "valid" /\ sbval.dval # <<>> THEN sbval.dval[1]
            ELSE IF hex.ok THEN hex.v
            ELSE ReadStep3(sbval, default)
        ELSE IF dec.ok THEN dec.v
        ELSE ReadStep3(sbval, default)

\* lines 16-63
ReadUnsignedValue(sbval, default) ==
    IF sbval.kind = "none" \/ sbval.valid # "yes" THEN default
    ELSE IF sbval.deref = "valid" /\ sbval.dval # <<>> THEN sbval.dval[1]
    ELSE ReadStep2(sbval, default)

(***************************************************************************)
(* Inputs of _read_unsigned_value                                          *)
(***************************************************************************)
MaxDigits == 2

Texts ==
    { <<"7">>, <<"0", "4", "2">>, <<"-", "5">>, <<"+", "3">>, <<" ", "1", "2", "\n">>,
      <<"0", "x", "1", "f">>, <<"-", "0", "x", "1", "0">>, <<"0", "x">>,
      <<"0", "x", "F", "F">>, <<"0", "X", "1">>, <<"a", "b">>, <<"1", "f">>,
      <<"0", "x", "g">>, <<"1", " ", "2">>, <<" ">>, <<>>, <<"-">>, <<"\t", "0", "x", "2">> }
    \cup UNION {[1..n -> {"0", "9", "x", "-"}] : n \in 1..MaxDigits}

TextAnswers == {<<"raise", <<>>>>, <<"none", <<>>>>} \cup {<<"str", t>> : t \in Texts}

CoInputs ==
    {[sbval |-> NoneVal, default |-> d] : d \in {0, 9}}
    \cup {[sbval |-> SBVal(v, de, de2, dv, tx, uv), default |-> d] :
            v \in {"yes", "no", "raise"}, de \in {"raise", "invalid", "valid"},
            de2 \in {"invalid", "valid"}, dv \in {<<>>, <<5>>}, tx \in TextAnswers,
            uv \in {<<>>, <<4096>>}, d \in {0, 9}}

CIdle == [called |-> FALSE, raised |-> FALSE, v |-> 0]

\* a decoder coerces a field
Coerce ==
    /\ ~cOut.called
    /\ cOut' = [called |-> TRUE, raised |-> FALSE,
                v |-> ReadUnsignedValue(cIn.sbval, cIn.default)]
    /\ UNCHANGED cIn
    /\ UNCHANGED <<svars, vvars>>

(***************************************************************************)
(* The vector decoders of pretty_static_vector.py.                         *)
(*                                                                         *)
(* The inspected value is [members, et, render]:                           *)
(*   members  what GetChildMemberWithName answers for each member name; a  *)
(*            member's kind is "value", or "raise" when the lookup raises; *)
(*            a scalar member is an SBVal record, the backing array `arr`  *)
(*            an ArrVal record                                             *)
(*   et       the first template argument: k is "type", "none" when        *)
(*            GetTemplateArgumentType raises, "raise" when GetType does;   *)
(*            size is GetByteSize(), <<>> when it raises                   *)
(*   render   how a value materialized from an element address renders:    *)
(*            "value" (GetValue), "summary" (GetSummary), "name" (the type *)
(*            name), "anon" (no text at all), or "raise" when              *)
(*            CreateValueFromAddress raises                                *)
(* An optional integer is <<>> (None, or a call that raises) or <<n>>.     *)
(***************************************************************************)
ArrVal(valid, melems, elems, own, templN) ==
    [kind |-> "value", valid |-> valid, melems |-> melems, elems |-> elems,
     own |-> own, templN |-> templN]
Elems(valid, n, first) == [valid |-> valid, n |-> n, first |-> first]
NoElems == Elems(FALSE, 0, <<>>)
RaiseMember == [kind |-> "raise", valid |-> "no"]
AbsentMember == [kind |-> "value", valid |-> "no"]

Type(valid, size) == [k |-> "type", valid |-> valid, size |-> size]
NoneType == [k |-> "none", valid |-> FALSE, size |-> <<0>>]
RaiseType == [k |-> "raise", valid |-> FALSE, size |-> <<0>>]

\* pretty_static_vector._find_member_recursive: a direct lookup only.
\* "found", "none" (returns None) or "raised".
FindMember(obj, name) ==
    LET m == IF name \in DOMAIN obj.members THEN obj.members[name] ELSE AbsentMember
    IN  IF m.kind = "raise" \/ m.valid = "raise" THEN "raised"
        ELSE IF m.valid = "yes" THEN "found"
        ELSE "none"

\* _get_template_elem_type: the element type, None, or GetType raising
GetTemplateElemType(obj) == obj.et

\* `if self._elem_type`: None and an invalid SBType are both false
TypeTruthy(t) == t.k = "type" /\ t.valid

Res(raised, v) == [raised |-> raised, v |-> v]

\* _get_arr_first_byte_addr
GetArrFirstByteAddr(arr) ==
    IF arr.melems.valid /\ arr.melems.n > 0
        THEN Res(arr.melems.first = <<>>, IF arr.melems.first = <<>> THEN 0 ELSE arr.melems.first[1])
    ELSE IF arr.elems.valid /\ arr.elems.n > 0
        THEN Res(arr.elems.first = <<>>, IF arr.elems.first = <<>> THEN 0 ELSE arr.elems.first[1])
    ELSE Res(arr.own = <<>>, IF arr.own = <<>> THEN 0 ELSE arr.own[1])

\* _get_arr_num_bytes
GetArrNumBytes(arr) ==
    IF arr.melems.valid THEN arr.melems.n
    ELSE IF arr.elems.valid THEN arr.elems.n
    ELSE IF arr.templN = <<>> THEN 0 ELSE arr.templN[1]

\* lldb.SBValue(), and valobj.CreateValueFromAddress(name, addr, type)
AbsentChild == [valid |-> FALSE, addr |-> 0, type |-> NoneType, via |-> "none"]
CreateValueFromAddress(obj, addr, type) ==
    [valid |-> TRUE, addr |-> addr, type |-> type, via |-> obj.render]

(***************************************************************************)
(* The providers.  A provider instance is [made, elem_type, elem_size,     *)
(* base, size]: base is _data_addr (StaticVectorSynthProvider) or          *)
(* _base_addr (StaticVectorAdapterSynthProvider), base and size optional   *)
(* integers.  Every method returns [raised, prov, ...]: whether it raised  *)
(* and the instance it leaves behind.                                      *)
(***************************************************************************)
NoProv == [made |-> FALSE, elem_type |-> NoneType, elem_size |-> 0,
           base |-> <<>>, size |-> <<>>]

\* __init__ of both providers (lines 108-113, 192-197)
ProviderInit(obj) ==
    LET t == GetTemplateElemType(obj)
    IN  IF t.k = "raise" THEN [raised |-> TRUE, prov |-> NoProv]
        ELSE IF TypeTruthy(t) /\ t.size = <<>> THEN [raised |-> TRUE, prov |-> NoProv]
        ELSE [raised |-> FALSE,
              prov |-> [made |-> TRUE, elem_type |-> t,
                        elem_size |-> IF TypeTruthy(t) THEN t.size[1] ELSE 0,
                        base |-> <<>>, size |-> <<>>]]

\* update of both providers (lines 115-119, 199-203)
ProviderUpdate(p, obj) ==
    LET t == GetTemplateElemType(obj)
    IN  IF t.k = "raise" THEN [raised |-> TRUE, prov |-> p]
        ELSE IF TypeTruthy(t) /\ t.size = <<>>
            THEN [raised |-> TRUE, prov |-> [p EXCEPT !.elem_type = t]]
        ELSE [raised |-> FALSE,
              prov |-> [p EXCEPT !.elem_type = t,
                                 !.elem_size = IF TypeTruthy(t) THEN t.size[1] ELSE 0,
                                 !.base = <<>>, !.size = <<>>]]

Lay(raised, p, derived) == [raised |-> raised, prov |-> p, derived |-> derived]

\* StaticVectorSynthProvider._compute_layout (lines 121-132)
StaticVectorComputeLayout(p, obj) ==
    LET szm == FindMember(obj, "elementsCount")
        cnt == obj.members["elementsCount"]
        p1 == [p EXCEPT !.size = IF szm = "found" THEN cnt.uval ELSE <<0>>]
        arr == FindMember(obj, "arr")
        a == GetArrFirstByteAddr(obj.members["arr"])
    IN  IF p.base # <<>> /\ p.size # <<>> THEN Lay(FALSE, p, FALSE)
        ELSE IF szm = "raised" THEN Lay(TRUE, p, TRUE)
        ELSE IF szm = "found" /\ cnt.uval = <<>> THEN Lay(TRUE, p, TRUE)
        ELSE IF arr = "raised" THEN Lay(TRUE, p1, TRUE)
        ELSE IF arr = "none" THEN Lay(FALSE, [p1 EXCEPT !.base = <<0>>], TRUE)
        ELSE IF a.raised THEN Lay(TRUE, p1, TRUE)
        ELSE Lay(FALSE, [p1 EXCEPT !.base = <<a.v>>], TRUE)

\* _read_unsigned_value(_find_member_recursive(valobj, name), 0); the lookup
\* itself raising is left to the caller
CoerceMember(obj, name) ==
    ReadUnsignedValue(IF FindMember(obj, name) = "found" THEN obj.members[name] ELSE NoneVal, 0)

\* lines 208-213, `size` being the coerced elements_count_
AdapterDerive(p, obj, size) ==
    LET szm == FindMember(obj, "elements_count_")
        p1 == [p EXCEPT !.size = <<size>>]
        ptr == FindMember(obj, "elements_")
        pv == obj.members["elements_"]
    IN  IF szm = "raised" THEN Lay(TRUE, p, TRUE)
        ELSE IF ptr = "raised" THEN Lay(TRUE, p1, TRUE)
        ELSE IF ptr = "none" THEN Lay(FALSE, [p1 EXCEPT !.base = <<0>>], TRUE)
        ELSE IF pv.uval = <<>> THEN Lay(TRUE, p1, TRUE)
        ELSE Lay(FALSE, [p1 EXCEPT !.base = pv.uval], TRUE)

\* StaticVectorAdapterSynthProvider._compute_layout (lines 205-213)
StaticVectorAdapterComputeLayout(p, obj) ==
    IF p.base # <<>> /\ p.size # <<>> THEN Lay(FALSE, p, FALSE)
    ELSE AdapterDerive(p, obj, CoerceMember(obj, "elements_count_"))

ComputeLayout(k, p, obj) ==
    IF k = "vector" THEN StaticVectorComputeLayout(p, obj)
    ELSE StaticVectorAdapterComputeLayout(p, obj)

\* lines 136 and 217, l being what _compute_layout did
NumChildrenOf(l) ==
    [raised |-> l.raised, prov |-> l.prov, derived |-> l.derived,
     num |-> IF l.raised THEN 0 ELSE l.prov.size[1]]

\* num_children of both providers (lines 134-136, 215-217)
NumChildren(k, p, obj) == NumChildrenOf(ComputeLayout(k, p, obj))

\* lines 147 and 234, l being what _compute_layout did
HasChildrenOf(l) ==
    [raised |-> l.raised, prov |-> l.prov, derived |-> l.derived,
     has |-> IF l.raised THEN FALSE ELSE l.prov.size[1] > 0]

\* has_children of both providers (lines 145-147, 232-234)
HasChildren(k, p, obj) == HasChildrenOf(ComputeLayout(k, p, obj))

\* the bug of comparing the index with `>` where the code has `>=`
ChildRefusedOffByOne(k, q, index) ==
    \/ index < 0
    \/ index > q.size[1]
    \/ ~TypeTruthy(q.elem_type)
    \/ q.base[1] = 0
    \/ (k = "adapter" /\ q.elem_size = 0)

\* line 140, and lines 221-227 with the stride test that only the adapter has
ChildRefused(k, q, index) ==
    \/ index < 0
    \/ index >= q.size[1]
    \/ ~TypeTruthy(q.elem_type)
    \/ q.base[1] = 0
    \/ (k = "adapter" /\ q.elem_size = 0)

\* lines 140-143 and 221-230, l being what _compute_layout did
ChildAt(k, obj, index, l) ==
    LET q == l.prov
        addr == q.base[1] + index * q.elem_size
    IN  IF l.raised
            THEN [raised |-> TRUE, prov |-> q, derived |-> l.derived, child |-> AbsentChild]
        ELSE IF ChildRefused(k, q, index)
            THEN [raised |-> FALSE, prov |-> q, derived |-> l.derived, child |-> AbsentChild]
        ELSE IF obj.render = "raise"
            THEN [raised |-> TRUE, prov |-> q, derived |-> l.derived, child |-> AbsentChild]
        ELSE [raised |-> FALSE, prov |-> q, derived |-> l.derived,
              child |-> CreateValueFromAddress(obj, addr, q.elem_type)]

\* get_child_at_index of both providers (lines 138-143, 219-230)
GetChildAtIndex(k, p, obj, index) == ChildAt(k, obj, index, ComputeLayout(k, p, obj))

(***************************************************************************)
(* The summaries.  The returned string by its parts:                       *)
(*   "size_only"  static_vector(size=S)                                    *)
(*   "full"       static_vector(size=S, cap=C) or                          *)
(*                static_vector_adapter(size=S, cap=C), then the preview   *)
(*   "error"      <static_vector: error e>, <static_vector_adapter: ...>   *)
(* The preview is the rendered elements in order, each [addr, disp] with   *)
(* disp the source of its text, and whether ", …" closes the list; no      *)
(* preview at all is shown = FALSE.                                        *)
(***************************************************************************)
PreviewMax == 4

Sum(k, size, cap, shown, parts, more) ==
    [kind |-> k, size |-> size, cap |-> cap, shown |-> shown, parts |-> parts, more |-> more]
SumErr == Sum("error", 0, 0, FALSE, <<>>, FALSE)

\* lines 174-179 and 260-264: GetValue(), else GetSummary(), else the type
\* name, else "?"
Disp(obj) ==
    IF obj.render = "value" THEN "value"
    ELSE IF obj.render = "summary" THEN "summary"
    ELSE IF obj.render = "name" THEN "name"
    ELSE "?"

\* lines 169 and 255
PreviewCount(size) == IF size < PreviewMax THEN size ELSE PreviewMax

\* lines 170-184 and 256-269
Preview(obj, size, base, elem_sz) ==
    LET count == PreviewCount(size)
    IN  [parts |-> [i \in 1..count |-> [addr |-> base + (i - 1) * elem_sz, disp |-> Disp(obj)]],
         more |-> size > count]

\* the bug of dividing the bytes by the element size rounded up
CapacityCeil(total_bytes, elem_sz) ==
    IF elem_sz # 0 THEN (total_bytes + elem_sz - 1) \div elem_sz ELSE 0

\* line 163
Capacity(total_bytes, elem_sz) == IF elem_sz # 0 THEN total_bytes \div elem_sz ELSE 0

\* StaticVectorSummary (lines 150-188)
StaticVectorSummary(obj) ==
    LET szm == FindMember(obj, "elementsCount")
        cnt == obj.members["elementsCount"]
        size == IF szm = "found" THEN cnt.uval[1] ELSE 0
        arr == FindMember(obj, "arr")
        av == obj.members["arr"]
        elem_type == GetTemplateElemType(obj)
        elem_sz == IF TypeTruthy(elem_type) THEN elem_type.size[1] ELSE 0
        cap == Capacity(GetArrNumBytes(av), elem_sz)
        base == GetArrFirstByteAddr(av)
        pv == Preview(obj, size, base.v, elem_sz)
    IN  IF szm = "raised" THEN SumErr
        ELSE IF szm = "found" /\ cnt.uval = <<>> THEN SumErr
        ELSE IF arr = "raised" THEN SumErr
        ELSE IF arr = "none" THEN Sum("size_only", size, 0, FALSE, <<>>, FALSE)
        ELSE IF elem_type.k = "raise" THEN SumErr
        ELSE IF TypeTruthy(elem_type) /\ elem_type.size = <<>> THEN SumErr
        ELSE IF ~(size > 0 /\ TypeTruthy(elem_type))
            THEN Sum("full", size, cap, FALSE, <<>>, FALSE)
        ELSE IF base.raised THEN SumErr
        ELSE IF obj.render = "raise" THEN SumErr
        ELSE Sum("full", size, cap, TRUE, pv.parts, pv.more)

\* lines 247-271, size and cap being the coerced elements_count_ and
\* max_elements_count_
AdapterSummaryOf(obj, size, cap) ==
    LET szm == FindMember(obj, "elements_count_")
        capm == FindMember(obj, "max_elements_count_")
        elem_type == GetTemplateElemType(obj)
        elem_sz == IF TypeTruthy(elem_type) THEN elem_type.size[1] ELSE 0
        ptr == FindMember(obj, "elements_")
        pm == obj.members["elements_"]
        base == IF ptr = "found" THEN pm.uval[1] ELSE 0
        pv == Preview(obj, size, base, elem_sz)
    IN  IF szm = "raised" \/ capm = "raised" THEN SumErr
        ELSE IF elem_type.k = "raise" THEN SumErr
        ELSE IF TypeTruthy(elem_type) /\ elem_type.size = <<>> THEN SumErr
        ELSE IF ptr = "raised" THEN SumErr
        ELSE IF ptr = "found" /\ pm.uval = <<>> THEN SumErr
        ELSE IF ~(size > 0 /\ TypeTruthy(elem_type) /\ base # 0 /\ elem_sz > 0)
            THEN Sum("full", size, cap, FALSE, <<>>, FALSE)
        ELSE IF obj.render = "raise" THEN SumErr
        ELSE Sum("full", size, cap, TRUE, pv.parts, pv.more)

\* StaticVectorAdapterSummary (lines 237-273)
StaticVectorAdapterSummary(obj) ==
    AdapterSummaryOf(obj, CoerceMember(obj, "elements_count_"),
                     CoerceMember(obj, "max_elements_count_"))

(***************************************************************************)
(* Inspected vectors.  Each set starts from a healthy value (the vector of *)
(* 3 two-byte elements in 10 backing bytes; the adapter of 3 elements out  *)
(* of 8 at 0x3000) and varies the count, the backing array or pointer, the *)
(* element type, the rendering and the host calls that raise.              *)
(***************************************************************************)
MaxIndex == 5

Indices == (0 - 1)..MaxIndex

Plain(n, txt) == SBVal("yes", "invalid", "invalid", <<>>, <<"str", txt>>, <<n>>)
StdArr(n, first) == ArrVal("yes", Elems(TRUE, n, first), NoElems, <<768>>, <<n>>)
LibcxxArr(n, first) == ArrVal("yes", NoElems, Elems(TRUE, n, first), <<768>>, <<n>>)
BareArr(templN) == ArrVal("yes", NoElems, NoElems, <<768>>, templN)

VObj(count, arr, et, render) ==
    [members |-> [elementsCount |-> count, arr |-> arr], et |-> et, render |-> render]

Arr10 == StdArr(10, <<256>>)
T2 == Type(TRUE, <<2>>)

VecObjects ==
    { VObj(Plain(3, <<"3">>), Arr10, T2, "value"),
      VObj(Plain(7, <<"7">>), Arr10, T2, "value"),
      VObj(Plain(4, <<"4">>), Arr10, T2, "value"),
      VObj(Plain(0, <<"0">>), Arr10, T2, "value"),
      VObj(AbsentMember, Arr10, T2, "value"),
      VObj(RaiseMember, Arr10, T2, "value"),
      VObj(SBVal("yes", "invalid", "invalid", <<>>, <<"none">>, <<>>), Arr10, T2, "value"),
      VObj(Plain(3, <<"3">>), AbsentMember, T2, "value"),
      VObj(Plain(3, <<"3">>), RaiseMember, T2, "value"),
      VObj(Plain(5, <<"5">>), LibcxxArr(4, <<512>>), T2, "value"),
      VObj(Plain(5, <<"5">>), StdArr(9, <<256>>), Type(TRUE, <<4>>), "summary"),
      VObj(Plain(3, <<"3">>), BareArr(<<6>>), T2, "value"),
      VObj(Plain(3, <<"3">>), BareArr(<<>>), T2, "value"),
      VObj(Plain(3, <<"3">>), StdArr(0, <<>>), T2, "value"),
      VObj(Plain(3, <<"3">>), StdArr(10, <<>>), T2, "value"),
      VObj(Plain(3, <<"3">>), StdArr(10, <<0>>), T2, "value"),
      VObj(Plain(3, <<"3">>), Arr10, NoneType, "value"),
      VObj(Plain(3, <<"3">>), Arr10, Type(FALSE, <<0>>), "value"),
      VObj(Plain(3, <<"3">>), Arr10, Type(TRUE, <<0>>), "value"),
      VObj(Plain(3, <<"3">>), Arr10, Type(TRUE, <<>>), "value"),
      VObj(Plain(3, <<"3">>), Arr10, RaiseType, "value"),
      VObj(Plain(3, <<"3">>), Arr10, T2, "name"),
      VObj(Plain(5, <<"5">>), Arr10, T2, "anon"),
      VObj(Plain(3, <<"3">>), Arr10, T2, "raise") }

AObj(count, maxc, ptr, et, render) ==
    [members |-> [elements_count_ |-> count, max_elements_count_ |-> maxc, elements_ |-> ptr],
     et |-> et, render |-> render]

Max8 == Plain(8, <<"8">>)
Ptr == Plain(12288, <<"0", "x", "3", "0", "0", "0">>)
Ref(n) == SBVal("yes", "valid", "valid", <<n>>, <<"str", <<"0", "x", "1", "0", "0", "0">>>>, <<4096>>)

AdObjects ==
    { AObj(Plain(3, <<"3">>), Max8, Ptr, T2, "value"),
      AObj(Plain(0, <<"0">>), Max8, Ptr, T2, "value"),
      AObj(Plain(9, <<"9">>), Max8, Ptr, T2, "value"),
      AObj(Ref(5), Ref(8), Ptr, T2, "value"),
      AObj(Ref(4), Ref(2), Ptr, T2, "value"),
      AObj(SBVal("yes", "invalid", "invalid", <<>>, <<"str", <<"-", "2">>>>, <<4094>>),
           Max8, Ptr, T2, "value"),
      AObj(SBVal("yes", "raise", "invalid", <<>>, <<"str", <<"0", "x", "1", "0">>>>, <<16>>),
           Max8, Ptr, T2, "value"),
      AObj(AbsentMember, Max8, Ptr, T2, "value"),
      AObj(RaiseMember, Max8, Ptr, T2, "value"),
      AObj(Plain(3, <<"3">>), AbsentMember, Ptr, T2, "value"),
      AObj(Plain(3, <<"3">>), RaiseMember, Ptr, T2, "value"),
      AObj(Plain(3, <<"3">>), Max8, Plain(0, <<"0">>), T2, "value"),
      AObj(Plain(3, <<"3">>), Max8, AbsentMember, T2, "value"),
      AObj(Plain(3, <<"3">>), Max8, RaiseMember, T2, "value"),
      AObj(Plain(3, <<"3">>), Max8, SBVal("yes", "invalid", "invalid", <<>>, <<"none">>, <<>>),
           T2, "value"),
      AObj(Plain(3, <<"3">>), Max8, Ptr, NoneType, "value"),
      AObj(Plain(3, <<"3">>), Max8, Ptr, Type(FALSE, <<0>>), "value"),
      AObj(Plain(3, <<"3">>), Max8, Ptr, Type(TRUE, <<0>>), "value"),
      AObj(Plain(3, <<"3">>), Max8, Ptr, Type(TRUE, <<>>), "value"),
      AObj(Plain(3, <<"3">>), Max8, Ptr, RaiseType, "value"),
      AObj(Plain(5, <<"5">>), Max8, Ptr, Type(TRUE, <<4>>), "summary"),
      AObj(Plain(3, <<"3">>), Max8, Ptr, T2, "name"),
      AObj(Plain(3, <<"3">>), Max8, Ptr, T2, "raise") }

Objects(k) == IF k = "vector" THEN VecObjects ELSE AdObjects

(***************************************************************************)
(* The host's calls.  ret is the last call: op, index, whether it raised,  *)
(* what it returned (num, has, child or sum), whether it derived the       *)
(* layout from memory, whether it was the first query since the last       *)
(* update or construction, and the size and base cached before it.         *)
(***************************************************************************)
Ret(op, idx, raised, num, has, child, sum, derived, first, before) ==
    [op |-> op, idx |-> idx, raised |-> raised, num |-> num, has |-> has,
     child |-> child, sum |-> sum, derived |-> derived, first |-> first, before |-> before]
Cached(p) == [size |-> p.size, base |-> p.base]
NoCache == [size |-> <<>>, base |-> <<>>]
SumNone == Sum("none", 0, 0, FALSE, <<>>, FALSE)
RIdle == Ret("idle", 0, FALSE, 0, FALSE, AbsentChild, SumNone, FALSE, FALSE, NoCache)

\* the size and base address a derivation finds in memory now
MemLayout(k, obj) == Cached(ComputeLayout(k, NoProv, obj).prov)

\* the host creates the provider for the value
Construct ==
    /\ ~prov.made
    /\ \E r \in {ProviderInit(vObj)} :
           /\ prov' = r.prov
           /\ ret' = Ret("init", 0, r.raised, 0, FALSE, AbsentChild, SumNone, FALSE, FALSE, NoCache)
    /\ fresh' = TRUE
    /\ UNCHANGED <<vKind, vObj, svars, cvars>>

\* the host signals that the value may have changed
Update ==
    /\ prov.made
    /\ \E r \in {ProviderUpdate(prov, vObj)} :
           /\ prov' = r.prov
           /\ ret' = Ret("update", 0, r.raised, 0, FALSE, AbsentChild, SumNone, FALSE, FALSE, NoCache)
    /\ fresh' = TRUE
    /\ UNCHANGED <<vKind, vObj, svars, cvars>>

QueryNumChildren ==
    /\ prov.made
    /\ \E r \in {NumChildren(vKind, prov, vObj)} :
           /\ prov' = r.prov
           /\ ret' = Ret("num_children", 0, r.raised, r.num, FALSE, AbsentChild, SumNone,
                         r.derived, fresh, Cached(prov))
    /\ fresh' = FALSE
    /\ UNCHANGED <<vKind, vObj, svars, cvars>>

QueryHasChildren ==
    /\ prov.made
    /\ \E r \in {HasChildren(vKind, prov, vObj)} :
           /\ prov' = r.prov
           /\ ret' = Ret("has_children", 0, r.raised, 0, r.has, AbsentChild, SumNone,
                         r.derived, fresh, Cached(prov))
    /\ fresh' = FALSE
    /\ UNCHANGED <<vKind, vObj, svars, cvars>>

QueryChild ==
    /\ prov.made
    /\ \E index \in Indices :
          \E r \in {GetChildAtIndex(vKind, prov, vObj, index)} :
              /\ prov' = r.prov
              /\ ret' = Ret("get_child_at_index", index, r.raised, 0, FALSE, r.child, SumNone,
                            r.derived, fresh, Cached(prov))
    /\ fresh' = FALSE
    /\ UNCHANGED <<vKind, vObj, svars, cvars>>

\* the host asks for the one-line summary; no provider is involved
VectorSummary ==
    /\ ret' = Ret("summary", 0, FALSE, 0, FALSE, AbsentChild,
                  IF vKind = "vector" THEN StaticVectorSummary(vObj)
                  ELSE StaticVectorAdapterSummary(vObj),
                  FALSE, FALSE, NoCache)
    /\ UNCHANGED <<vKind, vObj, prov, fresh, svars, cvars>>

\* the inspected process runs on: the value reads differently from now on
MemChange ==
    /\ vObj' \in Objects(vKind) \ {vObj}
    /\ ret' = RIdle
    /\ UNCHANGED <<vKind, prov, fresh, svars, cvars>>

(***************************************************************************)
(* Specifications                                                          *)
(***************************************************************************)
IdleObj == Direct(UZero, UZero, UZero)
IdleIn == [sbval |-> NoneVal, default |-> 0]
IdleVec == VObj(AbsentMember, AbsentMember, NoneType, "value")

InitStr ==
    /\ \E in \in StrInputs : sObj = in.obj /\ sMem = in.mem /\ sFault = in.flt
    /\ sOut = SIdle
    /\ sReads = <<>>
    /\ cIn = IdleIn /\ cOut = CIdle
    /\ vKind = "vector" /\ vObj = IdleVec /\ prov = NoProv /\ ret = RIdle /\ fresh = TRUE

NextStr == Summarize
SpecStr == InitStr /\ [][NextStr]_vars

InitCo ==
    /\ cIn \in CoInputs
    /\ cOut = CIdle
    /\ sObj = IdleObj /\ sMem = PlainMem /\ sFault = "none" /\ sOut = SIdle /\ sReads = <<>>
    /\ vKind = "vector" /\ vObj = IdleVec /\ prov = NoProv /\ ret = RIdle /\ fresh = TRUE

NextCo == Coerce
SpecCo == InitCo /\ [][NextCo]_vars

InitVec ==
    /\ vKind \in {"vector", "adapter"}
    /\ vObj \in Objects(vKind)
    /\ prov = NoProv
    /\ ret = RIdle
    /\ fresh = TRUE
    /\ sObj = IdleObj /\ sMem = PlainMem /\ sFault = "none" /\ sOut = SIdle /\ sReads = <<>>
    /\ cIn = IdleIn /\ cOut = CIdle

NextVec ==
    \/ Construct
    \/ Update
    \/ QueryNumChildren
    \/ QueryHasChildren
    \/ QueryChild
    \/ VectorSummary
    \/ MemChange
SpecVec == InitVec /\ [][NextVec]_vars

(***************************************************************************)
(* Properties of _read_unsigned_value                                      *)
(***************************************************************************)
\* C10: _read_unsigned_value never raises and always returns a non-negative
\* integer: `default` for an absent or invalid field, the unsigned value of
\* the dereferenced field when dereferencing yields a valid value that can
\* be read, and otherwise the parsed text or the field's unsigned accessor.
C10_Original ==
    cOut.called =>
        /\ ~cOut.raised
        /\ cOut.v >= 0
        /\ (cIn.sbval.kind = "none" \/ cIn.sbval.valid # "yes") => cOut.v = cIn.default
        /\ (cIn.sbval.kind = "value" /\ cIn.sbval.valid = "yes" /\ cIn.sbval.deref = "valid"
              /\ cIn.sbval.dval # <<>>) => cOut.v = cIn.sbval.dval[1]

(***************************************************************************)
(* Properties of the vector decoders                                       *)
(***************************************************************************)
IsQuery == ret.op \in {"num_children", "has_children", "get_child_at_index"}
Returned == ret.op # "idle" /\ ~ret.raised

\* C3: no failure escapes a decoder call: the constructor, update,
\* num_children, get_child_at_index and has_children of both providers and
\* both summaries return normally whatever host call raises.
C3_NoFailureEscapes ==
    /\ ~ret.raised
    /\ ret.op = "summary" => ret.sum.kind \in {"size_only", "full", "error"}

\* the capacity the inspected value has in memory: floor(backing bytes /
\* stride) for static_vector, max_elements_count_ for the adapter
HasCapacity ==
    IF vKind = "vector"
    THEN FindMember(vObj, "arr") = "found" /\ TypeTruthy(vObj.et) /\ vObj.et.size # <<>>
             /\ vObj.et.size # <<0>>
    ELSE FindMember(vObj, "max_elements_count_") = "found"
CapacityInMemory ==
    IF vKind = "vector" THEN GetArrNumBytes(vObj.members["arr"]) \div vObj.et.size[1]
    ELSE CoerceMember(vObj, "max_elements_count_")

\* C4: the size the summary reports, the value num_children returns and the
\* indices with a valid child never exceed the capacity, whatever the count
\* field holds.
C4_SizeWithinCapacity ==
    /\ (ret.op = "summary" /\ ret.sum.kind = "full" /\ HasCapacity)
          => ret.sum.size <= ret.sum.cap
    /\ (ret.op = "num_children" /\ Returned /\ ret.derived /\ HasCapacity)
          => ret.num <= CapacityInMemory
    /\ (ret.op = "get_child_at_index" /\ Returned /\ ret.derived /\ HasCapacity
          /\ ret.child.valid) => ret.idx < CapacityInMemory

\* C5: with an element stride of 0, get_child_at_index returns an absent
\* child for every index, for both providers.
C5_ZeroStrideNoChild ==
    (ret.op = "get_child_at_index" /\ Returned /\ prov.elem_size = 0) => ~ret.child.valid

\* C6 as stated: get_child_at_index(i) returns a valid child iff
\* 0 <= i < size, size being what num_children returns, and a valid child
\* sits at base + i * stride with the element type.
C6_Original ==
    /\ (ret.op = "num_children" /\ Returned) => ret.num = prov.size[1]
    /\ (ret.op = "get_child_at_index" /\ Returned) =>
          /\ ret.child.valid <=> (0 <= ret.idx /\ ret.idx < prov.size[1])
          /\ ret.child.valid =>
                /\ ret.child.addr = prov.base[1] + ret.idx * prov.elem_size
                /\ ret.child.type = prov.elem_type

\* C6 amended: get_child_at_index(i), when it returns, returns a valid child
\* iff 0 <= i < size, the element type is resolved and the base address is
\* not 0 (and, for the adapter only, the stride is not 0), size being what
\* num_children returns; so i == size and i == -1 yield an absent child; a
\* valid child sits at base + i * stride with the element type.
C6_ChildBounds ==
    /\ (ret.op = "num_children" /\ Returned) => ret.num = prov.size[1]
    /\ (ret.op = "get_child_at_index" /\ Returned) =>
          /\ ret.child.valid <=>
                /\ 0 <= ret.idx /\ ret.idx < prov.size[1]
                /\ prov.elem_type.k = "type" /\ prov.elem_type.valid
                /\ prov.base[1] # 0
                /\ vKind = "adapter" => prov.elem_size # 0
          /\ (ret.idx = prov.size[1] \/ ret.idx = 0 - 1) => ~ret.child.valid
          /\ ret.child.valid =>
                /\ ret.child.addr = prov.base[1] + ret.idx * prov.elem_size
                /\ ret.child.type = prov.elem_type

\* C6 witness: element 2 of a vector of 3 two-byte elements at 256
C6_Witness ==
    /\ ret.op = "get_child_at_index" /\ Returned /\ ret.idx = 2
    /\ prov.size = <<3>> /\ prov.base = <<256>> /\ prov.elem_size = 2
    /\ ret.child.valid /\ ret.child.addr = 260

\* C7: a query uses the size and base address found in memory at the first
\* query after the last update (or construction): the first query derives
\* them from memory, every later one reuses them unchanged.
C7_CachedUntilUpdate ==
    (IsQuery /\ Returned) =>
        IF ret.first
        THEN ret.derived /\ Cached(prov) = MemLayout(vKind, vObj)
        ELSE ~ret.derived /\ Cached(prov) = ret.before

\* the count, the backing bytes and the stride of the inspected static_vector
CountS == IF FindMember(vObj, "elementsCount") = "found"
          THEN vObj.members["elementsCount"].uval[1] ELSE 0
BytesB == GetArrNumBytes(vObj.members["arr"])
StrideE == IF vObj.et.k = "type" /\ vObj.et.valid THEN vObj.et.size[1] ELSE 0
BaseA == GetArrFirstByteAddr(vObj.members["arr"]).v
FullVectorSummary == vKind = "vector" /\ ret.op = "summary" /\ ret.sum.kind = "full"
LeastOf(a, b) == IF a < b THEN a ELSE b

\* C9 as stated: StaticVectorSummary returns size=S, cap=floor(B / E), then
\* a preview of exactly min(S, 4) elements at base + i * E, closed by an
\* ellipsis iff S > 4, and no preview when S = 0.
C9_Original ==
    FullVectorSummary =>
        /\ ret.sum.size = CountS
        /\ StrideE > 0 => ret.sum.cap = BytesB \div StrideE
        /\ Len(ret.sum.parts) = LeastOf(CountS, 4)
        /\ \A i \in 1..Len(ret.sum.parts) : ret.sum.parts[i].addr = BaseA + (i - 1) * StrideE
        /\ ret.sum.more <=> CountS > 4
        /\ ret.sum.shown <=> CountS # 0

\* C9 amended: StaticVectorSummary returns size=S, cap=C with
\* C = floor(B / E) for E > 0 and C = 0 for E = 0, then, only when S > 0 and
\* the element type is resolved, a preview of exactly min(S, 4) elements at
\* base + i * E, closed by an ellipsis iff S > 4; with S = 0 or an
\* unresolved element type there is no preview at all.
C9_Summary ==
    FullVectorSummary =>
        /\ ret.sum.size = CountS
        /\ ret.sum.cap = (IF StrideE > 0 THEN BytesB \div StrideE ELSE 0)
        /\ ret.sum.shown <=> (CountS > 0 /\ vObj.et.k = "type" /\ vObj.et.valid)
        /\ ret.sum.shown =>
              /\ Len(ret.sum.parts) = LeastOf(CountS, 4)
              /\ \A i \in 1..Len(ret.sum.parts) :
                    ret.sum.parts[i].addr = BaseA + (i - 1) * StrideE
              /\ ret.sum.more <=> CountS > 4
        /\ ~ret.sum.shown => (ret.sum.parts = <<>> /\ ~ret.sum.more)

\* C9 witness: count 3, 10 backing bytes, stride 2: size=3, cap=5, three
\* elements and no ellipsis
C9_Witness ==
    /\ FullVectorSummary /\ CountS = 3 /\ BytesB = 10 /\ StrideE = 2
    /\ ret.sum.size = 3 /\ ret.sum.cap = 5 /\ Len(ret.sum.parts) = 3 /\ ~ret.sum.more

====
